---- MODULE Spec2Model ----
(***************************************************************************)
(* Model of ptzpicocam.ino: a joystick/button controller that drives a PTZ *)
(* camera over a serial line.  loop() runs once per 33 ms; isr_Btn1 is the *)
(* CHANGE interrupt of the button pin and may run between any two          *)
(* statements of loop().  Time is millis(), in milliseconds.               *)
(***************************************************************************)
EXTENDS Integers, Sequences, FiniteSets, TLC

VARIABLES
  \* ---- program state (globals of ptzpicocam.ino)
  buttonToCheck,                 \* int8_t, -1 = no pending edge
  commande_memory,               \* 0 idle, 1 store, 2 recall
  start_memory_commande_memory,  \* millis() of the last short press
  allbtn,                        \* allbtn[0]: timepressed, lastpressed, isPress
  joystick,                      \* x, y, zoom samples
  camera,                        \* directions and speeds
  drivePacket, memoryPacket, zoomPacket,
  zoomLed,                       \* level of ZOOM_LED_PIN
  \* ---- control and time
  pc,                            \* position of loop(): the line it is about to run
  now,                           \* millis()
  wake,                          \* millis() at which delay(33) has waited 33 ms
  \* ---- environment
  btnDown,                       \* physical level of the button
  lastEdge,                      \* time of the last physical edge
  nEdges,                        \* physical edges produced so far
  drift,                         \* extra milliseconds spent in loop bodies so far
  \* ---- observation (history) variables
  written,                       \* frames written to Serial in the current tick
  event,                         \* classification made in the current tick
  accepted, consumed,            \* edges accepted by the ISR / processed by loop()
  pending,                       \* the accepted edge not yet processed: kind and time
  pressEdge,                     \* the edge that the first branch of the classifier took
  lastClass,                     \* the last classification and the edges behind it
  ticks                          \* the last two completed ticks, oldest first

vars == << buttonToCheck, commande_memory, start_memory_commande_memory, allbtn,
           joystick, camera, drivePacket, memoryPacket, zoomPacket, zoomLed,
           pc, now, wake, btnDown, lastEdge, nEdges, drift,
           written, event, accepted, consumed, pending, pressEdge, lastClass, ticks >>

----------------------------------------------------------------------------
\* Program constants

SHORT_PRESS_TIME == 1000
TIME_FOR_MEMORY_commande_memory == 5
DEBOUNCE_TIME == 70
LOOP_DELAY == 33

PAN_LEFT == 1
PAN_RIGHT == 2
PAN_STOP == 3
TILT_UP == 1
TILT_DOWN == 2
TILT_STOP == 3
ZOOM_STOP == 0
ZOOM_TELE == 2
ZOOM_WIDE == 3

LOW == 0
HIGH == 1

\* Bounds of the model
MaxTime == 1300     \* horizon of Spec, in ms
MaxEdges == 4       \* physical button edges in a run of Spec
HoldTime == 5300    \* horizon of SpecHold, in ms
HoldEdges == 2      \* physical button edges in a run of SpecHold
MaxDrift == 17      \* loop iterations that last 34 ms instead of 33 ms
EncTime == 1150     \* horizon of SpecEnc, in ms
EncEdges == 2       \* physical button edges in a run of SpecEnc
RestartTime == 5450 \* horizon of SpecRestart, in ms
RestartEdges == 4   \* physical button edges in a run of SpecRestart
LiveTime == 7150    \* horizon of SpecLive, in ms
RangeOver == 96     \* how far outside [minVal, maxVal] a sample of SpecRange lies

\* Spacings of consecutive physical edges, in ms: a contact bounce, the
\* shortest spacing the debounce lets through, a long hold.
Gaps == {20, 71, 1000}
\* In SpecHold: short presses only
HoldGaps == {71}
\* In SpecLive: one short press or one press held 1020 ms
LiveGaps == {71, 1020}
\* In SpecEnc: one short or one long press
EncGaps == {71, 1000}

----------------------------------------------------------------------------
\* Arithmetic of the target

\* millis() - since, in unsigned long.  millis() wraps after 2^32 ms (49.7
\* days), far beyond the horizons of this model; a wrapped difference is larger
\* than every threshold of the program and is given as the largest integer.
Elapsed(t, since) == IF t >= since THEN t - since ELSE 2147483647

\* C integer division truncates toward zero
TruncDiv(a, b) ==
  IF (a >= 0) = (b > 0) THEN a \div b ELSE -((-a) \div b)

abs(x) == IF x > 0 THEN x ELSE -x

RECURSIVE BitOr(_, _)
BitOr(a, b) ==
  IF a = 0 THEN b
  ELSE IF b = 0 THEN a
  ELSE (IF a % 2 = 1 \/ b % 2 = 1 THEN 1 ELSE 0) + 2 * BitOr(a \div 2, b \div 2)

\* map() that forgets to add out_min
mapNoOffset(x, in_min, in_max, out_min, out_max) ==
  TruncDiv((x - in_min) * (out_max - out_min), in_max - in_min)

\* Arduino's map(): long arithmetic, truncating division
map(x, in_min, in_max, out_min, out_max) ==
  TruncDiv((x - in_min) * (out_max - out_min), in_max - in_min) + out_min

----------------------------------------------------------------------------
\* initJoystick()

minVal == 0
maxVal == 1023
deadzone == 5
center == maxVal \div 2
threshold == (center * deadzone) \div 100
leftLimit == center - threshold
rightLimit == center + threshold

----------------------------------------------------------------------------
\* Axis mapping (loop(), lines 144-184): direction and speed of one axis

\* the pan mapping with <= for < at the left limit
PanCommandOffByOne(x) ==
  IF x <= leftLimit
  THEN [dir |-> PAN_RIGHT,
        speed |-> map(abs(x - leftLimit), minVal, leftLimit, 1, 24) % 65536]
  ELSE IF x > rightLimit
  THEN [dir |-> PAN_LEFT, speed |-> map(x, rightLimit, maxVal, 1, 24) % 65536]
  ELSE [dir |-> PAN_STOP, speed |-> 1]

PanCommand(x) ==
  IF x < leftLimit
  THEN [dir |-> PAN_RIGHT,
        speed |-> map(abs(x - leftLimit), minVal, leftLimit, 1, 24) % 65536]
  ELSE IF x > rightLimit
  THEN [dir |-> PAN_LEFT, speed |-> map(x, rightLimit, maxVal, 1, 24) % 65536]
  ELSE [dir |-> PAN_STOP, speed |-> 1]

\* the tilt mapping with the upper bound of the other side (0x18) on both
TiltCommandSymmetric(y) ==
  IF y < leftLimit
  THEN [dir |-> TILT_UP,
        speed |-> map(abs(y - leftLimit), minVal, leftLimit, 1, 24) % 65536]
  ELSE IF y > rightLimit
  THEN [dir |-> TILT_DOWN, speed |-> map(y, rightLimit, maxVal, 1, 24) % 65536]
  ELSE [dir |-> TILT_STOP, speed |-> 1]

TiltCommand(y) ==
  IF y < leftLimit
  THEN [dir |-> TILT_UP,
        speed |-> map(abs(y - leftLimit), minVal, leftLimit, 1, 23) % 65536]
  ELSE IF y > rightLimit
  THEN [dir |-> TILT_DOWN, speed |-> map(y, rightLimit, maxVal, 1, 24) % 65536]
  ELSE [dir |-> TILT_STOP, speed |-> 1]

\* the zoom mapping with the pan bound (0x18) pasted in
ZoomCommandPanBound(z) ==
  IF z < leftLimit
  THEN [dir |-> ZOOM_WIDE,
        speed |-> map(abs(z - leftLimit), minVal, leftLimit, 1, 24) % 256,
        led |-> LOW]
  ELSE IF z > rightLimit
  THEN [dir |-> ZOOM_TELE, speed |-> map(z, rightLimit, maxVal, 1, 24) % 256,
        led |-> LOW]
  ELSE [dir |-> ZOOM_STOP, speed |-> 1, led |-> HIGH]

\* the zoom mapping with setZoomLed(LOW) lost in the tele branch
ZoomCommandLedTele(z) ==
  IF z < leftLimit
  THEN [dir |-> ZOOM_WIDE,
        speed |-> map(abs(z - leftLimit), minVal, leftLimit, 1, 7) % 256,
        led |-> LOW]
  ELSE IF z > rightLimit
  THEN [dir |-> ZOOM_TELE, speed |-> map(z, rightLimit, maxVal, 1, 7) % 256,
        led |-> HIGH]
  ELSE [dir |-> ZOOM_STOP, speed |-> 1, led |-> HIGH]

\* led: the value handed to setZoomLed
ZoomCommand(z) ==
  IF z < leftLimit
  THEN [dir |-> ZOOM_WIDE,
        speed |-> map(abs(z - leftLimit), minVal, leftLimit, 1, 7) % 256,
        led |-> LOW]
  ELSE IF z > rightLimit
  THEN [dir |-> ZOOM_TELE, speed |-> map(z, rightLimit, maxVal, 1, 7) % 256,
        led |-> LOW]
  ELSE [dir |-> ZOOM_STOP, speed |-> 1, led |-> HIGH]

\* the drive payload written one byte too early (indices 3..6 for 4..7)
DrivePayloadShifted(drv, cam) ==
  [drv EXCEPT ![4] = cam.panSpeed % 256, ![5] = cam.tiltSpeed % 256,
              ![6] = cam.panDirection % 256, ![7] = cam.tiltDirection % 256]

\* lines 186-189: the payload bytes of the drive packet (uint8_t stores)
DrivePayload(drv, cam) ==
  [drv EXCEPT ![5] = cam.panSpeed % 256, ![6] = cam.tiltSpeed % 256,
              ![7] = cam.panDirection % 256, ![8] = cam.tiltDirection % 256]

\* the zoom byte with its nibbles swapped
ZoomPayloadSwapped(zm, cam) ==
  [zm EXCEPT ![5] = BitOr(cam.zoomSpeed * 16, cam.zoomDirection) % 256]

\* line 191
ZoomPayload(zm, cam) ==
  [zm EXCEPT ![5] = BitOr(cam.zoomDirection * 16, cam.zoomSpeed) % 256]

----------------------------------------------------------------------------
\* Decisions of the button logic and of the arbiter

\* the debounce test with a digit of the window lost
EdgeAcceptedShortWindow(t, lastpressed) == Elapsed(t, lastpressed) > 7

\* line 89: the debounce test of isr_Btn1, t = millis()
EdgeAccepted(t, lastpressed) == Elapsed(t, lastpressed) > DEBOUNCE_TIME

\* the press test with <= for <
IsShortPressInclusive(t, timepressed) ==
  Elapsed(t, timepressed) <= SHORT_PRESS_TIME

\* line 123: short or long press, t = millis()
IsShortPress(t, timepressed) == Elapsed(t, timepressed) < SHORT_PRESS_TIME

\* the hold test with >= for >
\* the hold window taken in microseconds
RecallExpiredMicros(t, start) ==
  Elapsed(t, start) > TIME_FOR_MEMORY_commande_memory * 1000 * 1000

RecallExpiredInclusive(t, start) ==
  Elapsed(t, start) >= TIME_FOR_MEMORY_commande_memory * 1000

\* line 196: the recall hold has run out, t = millis()
RecallExpired(t, start) ==
  Elapsed(t, start) > TIME_FOR_MEMORY_commande_memory * 1000

\* the emission without its else: drive and zoom follow the memory frame
EmitNoElse(cm, mem, drv, zm) ==
  IF cm > 0 THEN << mem, drv, zm >> ELSE << drv, zm >>

\* lines 192-202: the frames one tick writes to Serial
Emit(cm, mem, drv, zm) == IF cm > 0 THEN << mem >> ELSE << drv, zm >>

\* the arbiter reset with the store case lost: a store is held like a recall
AfterEmitStoreHeld(cm, t, start) ==
  IF cm > 0 /\ RecallExpired(t, start) THEN 0 ELSE cm

\* the arbiter reset after every memory frame: a recall is sent once
AfterEmitOneShot(cm, t, start) == 0

\* lines 192-198: commande_memory after the emission
AfterEmit(cm, t, start) ==
  IF cm > 0
  THEN IF cm = 1 THEN 0
       ELSE IF RecallExpired(t, start) THEN 0 ELSE cm
  ELSE cm

----------------------------------------------------------------------------
\* Initial state: the globals as initialised, after setup()

NoEdge == [kind |-> "none", at |-> 0, no |-> 0]
NoClass == [ev |-> "none", startKind |-> "none", endKind |-> "none",
            startNo |-> 0, endNo |-> 0, held |-> 0, measured |-> 0]

Init ==
  /\ buttonToCheck = -1
  /\ commande_memory = 0
  /\ start_memory_commande_memory = 0
  /\ allbtn = [timepressed |-> 0, lastpressed |-> 0, isPress |-> FALSE]
  /\ joystick = [x |-> 0, y |-> 0, zoom |-> 0]
  /\ camera = [panDirection |-> 0, panSpeed |-> 0, tiltDirection |-> 0,
               tiltSpeed |-> 0, zoomDirection |-> 0, zoomSpeed |-> 0]
  /\ drivePacket = << 129, 1, 6, 1, 0, 0, 0, 0, 255 >>
  /\ memoryPacket = << 129, 1, 4, 63, 2, 0, 255 >>
  /\ zoomPacket = << 129, 1, 4, 7, 0, 255 >>
  /\ zoomLed = LOW
  /\ pc = "L118"
  /\ now = 0
  /\ wake = 0
  /\ btnDown = FALSE
  /\ lastEdge = 0
  /\ nEdges = 0
  /\ drift = 0
  /\ written = << >>
  /\ event = "none"
  /\ accepted = 0
  /\ consumed = 0
  /\ pending = NoEdge
  /\ pressEdge = NoEdge
  /\ lastClass = NoClass
  /\ ticks = << >>

progVars == << commande_memory, start_memory_commande_memory, joystick, camera,
               drivePacket, memoryPacket, zoomPacket, zoomLed >>
obsVars == << written, event, consumed, pressEdge, lastClass, ticks >>

----------------------------------------------------------------------------
\* isr_Btn1 (lines 88-93), run at millis() = t for a physical edge

\* the handler without its debounce test
isr_Btn1NoDebounce(t) ==
  /\ allbtn' = [allbtn EXCEPT !.lastpressed = t]
  /\ buttonToCheck' = 0
  /\ accepted' = accepted + 1
  /\ pending' = [kind |-> IF btnDown THEN "release" ELSE "press",
                 at |-> t, no |-> nEdges + 1]

\* the handler also stamping the press time
isr_Btn1Stamp(t) ==
  IF EdgeAccepted(t, allbtn.lastpressed)
  THEN /\ allbtn' = [allbtn EXCEPT !.lastpressed = t, !.timepressed = t]
       /\ buttonToCheck' = 0
       /\ accepted' = accepted + 1
       /\ pending' = [kind |-> IF btnDown THEN "release" ELSE "press",
                      at |-> t, no |-> nEdges + 1]
  ELSE UNCHANGED << allbtn, buttonToCheck, accepted, pending >>

isr_Btn1(t) ==
  IF EdgeAccepted(t, allbtn.lastpressed)
  THEN /\ allbtn' = [allbtn EXCEPT !.lastpressed = t]
       /\ buttonToCheck' = 0
       /\ accepted' = accepted + 1
       /\ pending' = [kind |-> IF btnDown THEN "release" ELSE "press",
                      at |-> t, no |-> nEdges + 1]
  ELSE UNCHANGED << allbtn, buttonToCheck, accepted, pending >>

\* A physical edge of the button, g ms after the previous one.  It interrupts
\* loop() where it stands: before any statement of the body (at the current
\* time) or at some moment of the delay.
ButtonEdge(budget, gaps) ==
  \E g \in gaps :
    LET e == lastEdge + g IN
    /\ nEdges < budget
    /\ IF pc = "L208" THEN now <= e /\ e <= wake ELSE e = now
    /\ now' = e
    /\ btnDown' = ~btnDown
    /\ lastEdge' = e
    /\ nEdges' = nEdges + 1
    /\ isr_Btn1(e)
    /\ UNCHANGED << pc, wake, drift >>
    /\ UNCHANGED progVars
    /\ UNCHANGED obsVars

----------------------------------------------------------------------------
\* loop(), statement by statement

\* line 118: if (buttonToCheck != -1)
loop_L118 ==
  /\ pc = "L118"
  /\ pc' = IF buttonToCheck # -1 THEN "L119" ELSE "L140"
  /\ written' = << >>
  /\ event' = "none"
  /\ UNCHANGED << buttonToCheck, allbtn, now, wake, btnDown, lastEdge, nEdges,
                  drift, accepted, consumed, pending, pressEdge, lastClass, ticks >>
  /\ UNCHANGED progVars

\* the classifier with the stores of the long-press branch into the memory
\* packet lost
loop_L119StaleSubcommand ==
  /\ pc = "L119"
  /\ pc' = "L138"
  /\ consumed' = consumed + 1
  /\ IF allbtn.isPress = FALSE
     THEN /\ allbtn' = [allbtn EXCEPT !.isPress = TRUE, !.timepressed = now]
          /\ pressEdge' = pending
          /\ UNCHANGED << memoryPacket, commande_memory,
                          start_memory_commande_memory, event, lastClass >>
     ELSE /\ IF IsShortPress(now, allbtn.timepressed)
             THEN /\ memoryPacket' = [memoryPacket EXCEPT ![5] = 2, ![6] = 0]
                  /\ commande_memory' = 2
                  /\ start_memory_commande_memory' = now
                  /\ event' = "Recall"
             ELSE /\ memoryPacket' = memoryPacket
                  /\ commande_memory' = 1
                  /\ event' = "Store"
                  /\ UNCHANGED start_memory_commande_memory
          /\ allbtn' = [allbtn EXCEPT !.isPress = FALSE]
          /\ lastClass' = [ev |-> event', startKind |-> pressEdge.kind,
                           endKind |-> pending.kind, startNo |-> pressEdge.no,
                           endNo |-> pending.no,
                           held |-> pending.at - pressEdge.at,
                           measured |-> Elapsed(now, allbtn.timepressed)]
          /\ UNCHANGED pressEdge
  /\ UNCHANGED << buttonToCheck, joystick, camera, drivePacket, zoomPacket,
                  zoomLed, now, wake, btnDown, lastEdge, nEdges, drift,
                  written, accepted, pending, ticks >>

\* the classifier keeping the start of a recall hold already running
loop_L119NoRestart ==
  /\ pc = "L119"
  /\ pc' = "L138"
  /\ consumed' = consumed + 1
  /\ IF allbtn.isPress = FALSE
     THEN /\ allbtn' = [allbtn EXCEPT !.isPress = TRUE, !.timepressed = now]
          /\ pressEdge' = pending
          /\ UNCHANGED << memoryPacket, commande_memory,
                          start_memory_commande_memory, event, lastClass >>
     ELSE /\ IF IsShortPress(now, allbtn.timepressed)
             THEN /\ memoryPacket' = [memoryPacket EXCEPT ![5] = 2, ![6] = 0]
                  /\ commande_memory' = 2
                  /\ start_memory_commande_memory' =
                       IF commande_memory = 2
                       THEN start_memory_commande_memory ELSE now
                  /\ event' = "Recall"
             ELSE /\ memoryPacket' = [memoryPacket EXCEPT ![5] = 1, ![6] = 0]
                  /\ commande_memory' = 1
                  /\ event' = "Store"
                  /\ UNCHANGED start_memory_commande_memory
          /\ allbtn' = [allbtn EXCEPT !.isPress = FALSE]
          /\ lastClass' = [ev |-> event', startKind |-> pressEdge.kind,
                           endKind |-> pending.kind, startNo |-> pressEdge.no,
                           endNo |-> pending.no,
                           held |-> pending.at - pressEdge.at,
                           measured |-> Elapsed(now, allbtn.timepressed)]
          /\ UNCHANGED pressEdge
  /\ UNCHANGED << buttonToCheck, joystick, camera, drivePacket, zoomPacket,
                  zoomLed, now, wake, btnDown, lastEdge, nEdges, drift,
                  written, accepted, pending, ticks >>

\* lines 119-137: the press classifier
loop_L119 ==
  /\ pc = "L119"
  /\ pc' = "L138"
  /\ consumed' = consumed + 1
  /\ IF allbtn.isPress = FALSE
     THEN /\ allbtn' = [allbtn EXCEPT !.isPress = TRUE, !.timepressed = now]
          /\ pressEdge' = pending
          /\ UNCHANGED << memoryPacket, commande_memory,
                          start_memory_commande_memory, event, lastClass >>
     ELSE /\ IF IsShortPress(now, allbtn.timepressed)
             THEN /\ memoryPacket' = [memoryPacket EXCEPT ![5] = 2, ![6] = 0]
                  /\ commande_memory' = 2
                  /\ start_memory_commande_memory' = now
                  /\ event' = "Recall"
             ELSE /\ memoryPacket' = [memoryPacket EXCEPT ![5] = 1, ![6] = 0]
                  /\ commande_memory' = 1
                  /\ event' = "Store"
                  /\ UNCHANGED start_memory_commande_memory
          /\ allbtn' = [allbtn EXCEPT !.isPress = FALSE]
          /\ lastClass' = [ev |-> event', startKind |-> pressEdge.kind,
                           endKind |-> pending.kind, startNo |-> pressEdge.no,
                           endNo |-> pending.no,
                           held |-> pending.at - pressEdge.at,
                           measured |-> Elapsed(now, allbtn.timepressed)]
          /\ UNCHANGED pressEdge
  /\ UNCHANGED << buttonToCheck, joystick, camera, drivePacket, zoomPacket,
                  zoomLed, now, wake, btnDown, lastEdge, nEdges, drift,
                  written, accepted, pending, ticks >>

\* line 138: buttonToCheck = -1
loop_L138 ==
  /\ pc = "L138"
  /\ pc' = "L140"
  /\ buttonToCheck' = -1
  /\ UNCHANGED << allbtn, now, wake, btnDown, lastEdge, nEdges, drift,
                  accepted, pending >>
  /\ UNCHANGED progVars
  /\ UNCHANGED obsVars

\* lines 140-202: sample the axes, map them, fill the packets, write to Serial
loop_L140(samples) ==
  \E s \in samples :
    LET pan == PanCommand(s[1])
        tilt == TiltCommand(s[2])
        zoom == ZoomCommand(s[3])
        cam == [panDirection |-> pan.dir, panSpeed |-> pan.speed,
                tiltDirection |-> tilt.dir, tiltSpeed |-> tilt.speed,
                zoomDirection |-> zoom.dir, zoomSpeed |-> zoom.speed]
        drv == DrivePayload(drivePacket, cam)
        zm == ZoomPayload(zoomPacket, cam)
        frames == Emit(commande_memory, memoryPacket, drv, zm)
        cmEnd == AfterEmit(commande_memory, now, start_memory_commande_memory)
        rec == [cm |-> commande_memory,
                age |-> Elapsed(now, start_memory_commande_memory),
                start |-> start_memory_commande_memory,
                ev |-> event, lastEv |-> lastClass.ev,
                frames |-> frames, cmEnd |-> cmEnd,
                zoom |-> s[3], led |-> zoom.led]
    IN
    /\ pc = "L140"
    /\ pc' = "L208"
    /\ joystick' = [x |-> s[1], y |-> s[2], zoom |-> s[3]]
    /\ camera' = cam
    /\ zoomLed' = zoom.led
    /\ drivePacket' = drv
    /\ zoomPacket' = zm
    /\ written' = frames
    /\ commande_memory' = cmEnd
    /\ wake' = now + LOOP_DELAY
    /\ ticks' = IF Len(ticks) < 2 THEN Append(ticks, rec) ELSE << ticks[2], rec >>
    /\ UNCHANGED << buttonToCheck, start_memory_commande_memory, allbtn,
                    memoryPacket, now, btnDown, lastEdge, nEdges, drift,
                    event, accepted, consumed, pending, pressEdge, lastClass >>

\* line 208: delay(33) returns.  The body of loop() takes less than a
\* millisecond, so millis() advances by 33 or by 34 from one iteration to the
\* next.
loop_L208(limit) ==
  \E j \in {0, 1} :
    /\ pc = "L208"
    /\ j = 1 => drift < MaxDrift
    /\ wake + j <= limit
    /\ now' = wake + j
    /\ drift' = drift + j
    /\ pc' = "L118"
    /\ UNCHANGED << buttonToCheck, allbtn, wake, btnDown, lastEdge, nEdges,
                    accepted, pending >>
    /\ UNCHANGED progVars
    /\ UNCHANGED obsVars

----------------------------------------------------------------------------
\* Samples of the three axes (x, y, zoom) drawn by analogRead

TimingSamples == { << 512, 512, 512 >> }
HoldSamples == { << 1023, 512, 0 >> }
AxisSamples ==
  { << s, 512, 512 >> : s \in minVal..maxVal } \cup
  { << 512, s, 512 >> : s \in minVal..maxVal } \cup
  { << 512, 512, s >> : s \in minVal..maxVal } \cup
  { << 1023, 512, 0 >> }

\* Buttons and arbiter over a horizon that holds a long press
Next ==
  \/ ButtonEdge(MaxEdges, Gaps)
  \/ loop_L118
  \/ loop_L119
  \/ loop_L138
  \/ loop_L140(TimingSamples)
  \/ loop_L208(MaxTime)

Spec == Init /\ [][Next]_vars

\* One short or long press over a horizon that holds the whole recall window
NextHold ==
  \/ ButtonEdge(HoldEdges, HoldGaps)
  \/ loop_L118
  \/ loop_L119
  \/ loop_L138
  \/ loop_L140(HoldSamples)
  \/ loop_L208(HoldTime)

SpecHold == Init /\ [][NextHold]_vars

\* One short or long press, then the whole hold window, with a loop period of
\* exactly 33 ms.  loop() is called again for ever by the Arduino core and
\* delay() returns: the steps of loop() are weakly fair; the button is not.
LoopLive ==
  \/ loop_L118
  \/ loop_L119
  \/ loop_L138
  \/ loop_L140(HoldSamples)
  \/ (loop_L208(LiveTime) /\ drift' = drift)

NextLive ==
  \/ ButtonEdge(HoldEdges, LiveGaps)
  \/ LoopLive

SpecLive == Init /\ [][NextLive]_vars /\ WF_vars(LoopLive)

\* Two short presses in a row, then the whole hold window of the second one
NextRestart ==
  \/ ButtonEdge(RestartEdges, HoldGaps)
  \/ loop_L118
  \/ loop_L119
  \/ loop_L138
  \/ loop_L140(HoldSamples)
  \/ loop_L208(RestartTime)

SpecRestart == Init /\ [][NextRestart]_vars

\* Centred and off-centre samples in every state of the arbiter: zoom inside
\* the deadzone with pan and tilt centred or not, zoom below it, zoom above it
EncSamples ==
  { << 512, 512, 512 >>, << 0, 1023, 512 >>, << 512, 512, 0 >>,
    << 1023, 0, 1023 >> }

NextEnc ==
  \/ ButtonEdge(EncEdges, EncGaps)
  \/ loop_L118
  \/ loop_L119
  \/ loop_L138
  \/ loop_L140(EncSamples)
  \/ loop_L208(EncTime)

SpecEnc == Init /\ [][NextEnc]_vars

\* One iteration of loop() over every sample of each axis, no button
NextAxis ==
  \/ loop_L118
  \/ loop_L140(AxisSamples)

SpecAxis == Init /\ [][NextAxis]_vars

\* One iteration of loop() with one axis outside [minVal, maxVal]: values the
\* int16_t fields of Joystick hold but a 10-bit analogRead() does not return
RangeSamples ==
  LET out == ((minVal - RangeOver)..(minVal - 1))
               \cup ((maxVal + 1)..(maxVal + RangeOver))
  IN  { << v, 512, 512 >> : v \in out } \cup { << 512, v, 512 >> : v \in out }
        \cup { << 512, 512, v >> : v \in out }

NextRange ==
  \/ loop_L118
  \/ loop_L140(RangeSamples)

SpecRange == Init /\ [][NextRange]_vars

----------------------------------------------------------------------------
\* Frames on the wire

RecallFrame == << 129, 1, 4, 63, 2, 0, 255 >>
StoreFrame == << 129, 1, 4, 63, 1, 0, 255 >>

IsMemoryFrame(f) ==
  Len(f) = 7 /\ SubSeq(f, 1, 4) = << 129, 1, 4, 63 >> /\ f[7] = 255
IsDriveFrame(f) ==
  Len(f) = 9 /\ SubSeq(f, 1, 4) = << 129, 1, 6, 1 >> /\ f[9] = 255
IsZoomFrame(f) ==
  Len(f) = 6 /\ SubSeq(f, 1, 4) = << 129, 1, 4, 7 >> /\ f[6] = 255

OneMemory(frames) == Len(frames) = 1 /\ IsMemoryFrame(frames[1])
DriveThenZoom(frames) ==
  Len(frames) = 2 /\ IsDriveFrame(frames[1]) /\ IsZoomFrame(frames[2])

HoldMs == TIME_FOR_MEMORY_commande_memory * 1000

----------------------------------------------------------------------------
\* C1: every completed tick has written either exactly one 7-byte memory
\* frame, or exactly one 9-byte drive frame followed by exactly one 6-byte zoom
\* frame; a tick whose emission starts in RecallActive (commande_memory = 2)
\* writes the memory frame only.
C1_OneKindPerTick ==
  /\ \A i \in 1..Len(ticks) :
       /\ OneMemory(ticks[i].frames) \/ DriveThenZoom(ticks[i].frames)
       /\ ticks[i].cm = 2 => OneMemory(ticks[i].frames)
  /\ written = IF pc \in {"L208", "L118"} /\ Len(ticks) > 0
               THEN ticks[Len(ticks)].frames
               ELSE << >>

\* a drive+zoom tick followed by a memory tick in RecallActive
C1_Witness ==
  /\ Len(ticks) = 2
  /\ ticks[1].cm = 0 /\ DriveThenZoom(ticks[1].frames)
  /\ ticks[2].cm = 2 /\ OneMemory(ticks[2].frames)
  /\ pc = "L208" /\ written = ticks[2].frames

----------------------------------------------------------------------------
\* C2 as stated: a tick that runs its emission in RecallActive with
\* millis() - start_memory_commande_memory >= 5000 (5000 included) and no new
\* button event leaves the arbiter Idle, and the next tick emits drive and zoom.
C2_ExpiresAtHold ==
  \A i \in 1..Len(ticks) :
    (ticks[i].cm = 2 /\ ticks[i].age >= HoldMs /\ ticks[i].ev = "none") =>
      /\ ticks[i].cmEnd = 0
      /\ (i < Len(ticks) /\ ticks[i + 1].ev = "none") =>
           DriveThenZoom(ticks[i + 1].frames)

\* C2 amended: the arbiter leaves RecallActive at the end of a tick exactly when
\* millis() - start_memory_commande_memory > 5000 at its emission (at exactly
\* 5000 ms it stays RecallActive for one more tick); the tick that leaves still
\* writes the memory frame and the next tick, absent a new classification,
\* writes the drive and zoom frames.
C2_ExpiresAfterHold ==
  \A i \in 1..Len(ticks) :
    ticks[i].cm = 2 =>
      /\ ticks[i].cmEnd = 0 <=> ticks[i].age > HoldMs
      /\ ticks[i].cmEnd # 0 => ticks[i].cmEnd = 2
      /\ OneMemory(ticks[i].frames)
      /\ (ticks[i].cmEnd = 0 /\ i < Len(ticks) /\ ticks[i + 1].ev = "none") =>
           DriveThenZoom(ticks[i + 1].frames)

\* the hold ran out (more than 5000 ms) and the next tick drives again
C2_Witness ==
  /\ Len(ticks) = 2
  /\ ticks[1].cm = 2 /\ ticks[1].age > HoldMs /\ ticks[1].cmEnd = 0
  /\ ticks[2].cm = 0 /\ DriveThenZoom(ticks[2].frames)

----------------------------------------------------------------------------
\* C3 as stated: once a short press has started a recall (start recorded),
\* every tick within 5000 ms of the recorded start writes the recall frame and
\* nothing else, whatever button edges follow.
C3_RecallWholeWindow ==
  \A i \in 1..Len(ticks) :
    (ticks[i].start # 0 /\ ticks[i].age < HoldMs) =>
      ticks[i].frames = << RecallFrame >>

\* C3 amended: as long as no long press is classified after the short press
\* (the latest classification is the short press), every tick within 5000 ms of
\* the recorded start runs in RecallActive, writes the recall frame
\* 81 01 04 3F 02 00 FF and writes no drive or zoom frame.
C3_RecallUnlessStore ==
  \A i \in 1..Len(ticks) :
    (ticks[i].lastEv = "Recall" /\ ticks[i].age < HoldMs) =>
      /\ ticks[i].cm = 2
      /\ ticks[i].frames = << RecallFrame >>
      /\ ticks[i].cmEnd = 2

\* two ticks of the window, a later press edge taken in between
C3_Witness ==
  /\ Len(ticks) = 2
  /\ ticks[1].lastEv = "Recall" /\ ticks[2].lastEv = "Recall"
  /\ ticks[2].age > 0 /\ ticks[2].age < HoldMs
  /\ allbtn.isPress
  /\ ticks[2].frames = << RecallFrame >>

----------------------------------------------------------------------------
\* C4: the tick that classifies a long press writes exactly one memory frame,
\* 81 01 04 3F 01 00 FF, and ends with the arbiter Idle; the next tick, absent
\* a new classification, writes the drive and zoom frames.
C4_StoreSingleShot ==
  \A i \in 1..Len(ticks) :
    ticks[i].ev = "Store" =>
      /\ ticks[i].cm = 1
      /\ ticks[i].frames = << StoreFrame >>
      /\ ticks[i].cmEnd = 0
      /\ (i < Len(ticks) /\ ticks[i + 1].ev = "none") =>
           DriveThenZoom(ticks[i + 1].frames)

\* a long press from Idle (no recall was ever started), then a drive tick
C4_Witness ==
  /\ Len(ticks) = 2
  /\ ticks[1].ev = "Store" /\ ticks[1].start = 0
  /\ lastClass.held >= 1000 /\ lastClass.endKind = "release"
  /\ ticks[1].frames = << StoreFrame >>
  /\ ticks[2].ev = "none" /\ DriveThenZoom(ticks[2].frames)

----------------------------------------------------------------------------
\* A classification made from a physical press edge and the release edge that
\* follows it, both accepted
Paired(c) ==
  /\ c.ev # "none"
  /\ c.startKind = "press" /\ c.endKind = "release"
  /\ c.endNo = c.startNo + 1

\* C5 as stated: a press whose press and release edges are both accepted gives
\* Recall if the physical hold is under 1000 ms and Store if it is 1000 ms or
\* more.
C5_ByPhysicalHold ==
  Paired(lastClass) =>
    /\ lastClass.held < SHORT_PRESS_TIME => lastClass.ev = "Recall"
    /\ lastClass.held >= SHORT_PRESS_TIME => lastClass.ev = "Store"

\* C5 amended: the classification goes by the time between the tick that takes
\* the first edge and the tick that takes the second (millis() at line 123
\* minus timepressed): under 1000 ms it is one Recall, at 1000 ms or more one
\* Store; for a press and its release that time is within one loop period
\* (34 ms) of the physical hold.
C5_ByMeasuredHold ==
  /\ lastClass.ev # "none" =>
       /\ lastClass.measured < SHORT_PRESS_TIME <=> lastClass.ev = "Recall"
       /\ lastClass.measured >= SHORT_PRESS_TIME <=> lastClass.ev = "Store"
  /\ Paired(lastClass) =>
       /\ lastClass.measured - lastClass.held <= LOOP_DELAY + 1
       /\ lastClass.held - lastClass.measured <= LOOP_DELAY + 1
  /\ \A i \in 1..Len(ticks) :
       /\ ticks[i].ev = "Recall" => ticks[i].frames = << RecallFrame >>
       /\ ticks[i].ev = "Store" => ticks[i].frames = << StoreFrame >>

\* a press and its release, measured at exactly 1000 ms: a long press
C5_Witness ==
  /\ Paired(lastClass)
  /\ lastClass.measured = SHORT_PRESS_TIME
  /\ lastClass.ev = "Store"

----------------------------------------------------------------------------
\* C6: a classification is made only by a tick that takes a physical release
\* edge whose press edge was taken before it; a tick that takes a physical
\* press edge classifies nothing.
C6_OnlyOnRelease ==
  lastClass.ev # "none" =>
    /\ lastClass.endKind = "release"
    /\ lastClass.startKind = "press"
    /\ lastClass.endNo = lastClass.startNo + 1

----------------------------------------------------------------------------
\* C7: isr_Btn1 accepts an edge only if at least 70 ms have passed since the
\* last accepted edge (lastpressed); an edge less than 70 ms after it sets
\* neither buttonToCheck nor lastpressed; an accepted edge sets both.
C7_Debounce ==
  [][ nEdges' = nEdges + 1 =>
        LET d == Elapsed(now', allbtn.lastpressed) IN
        /\ accepted' = accepted + 1 =>
             /\ d >= DEBOUNCE_TIME
             /\ buttonToCheck' = 0
             /\ allbtn'.lastpressed = now'
        /\ d < DEBOUNCE_TIME =>
             /\ accepted' = accepted
             /\ buttonToCheck' = buttonToCheck
             /\ allbtn' = allbtn
        /\ accepted' \in {accepted, accepted + 1}
        /\ accepted' = accepted => (buttonToCheck' = buttonToCheck /\ allbtn' = allbtn)
    ]_vars

\* an accepted edge, then a bounce 20 ms later that was dropped
C7_Witness ==
  /\ accepted >= 1
  /\ nEdges > accepted
  /\ lastEdge > allbtn.lastpressed
  /\ lastEdge - allbtn.lastpressed < DEBOUNCE_TIME

----------------------------------------------------------------------------
\* C8: every accepted edge is processed by exactly one tick: the number of
\* accepted edges exceeds the number of processed ones by one exactly while an
\* edge is pending and not yet classified, and never otherwise; so the flag is
\* never cleared over an unprocessed edge and no edge is processed twice.
C8_NoLostEdge ==
  /\ accepted - consumed =
       (IF buttonToCheck # -1 /\ pc # "L138" THEN 1 ELSE 0)
  /\ pc \in {"L119", "L138"} => buttonToCheck = 0
  /\ (buttonToCheck # -1 /\ pc # "L138") => pending.no > pressEdge.no

\* an edge interrupts loop() between the test of the flag and its clearing
C8_Witness ==
  /\ pc \in {"L119", "L138"}
  /\ lastEdge = now
  /\ nEdges > 1
  /\ allbtn.lastpressed < now

----------------------------------------------------------------------------
\* C9: a sample inside [leftLimit, rightLimit] = [486, 536] maps to stop with
\* speed 1 on each axis (pan code 3, tilt code 3, zoom code 0).
C9_Deadzone ==
  /\ leftLimit = 486 /\ rightLimit = 536
  /\ pc = "L208" =>
       /\ joystick.x \in leftLimit..rightLimit =>
            /\ camera.panDirection = 3 /\ camera.panSpeed = 1
            /\ drivePacket[5] = 1 /\ drivePacket[7] = 3
       /\ joystick.y \in leftLimit..rightLimit =>
            /\ camera.tiltDirection = 3 /\ camera.tiltSpeed = 1
            /\ drivePacket[6] = 1 /\ drivePacket[8] = 3
       /\ joystick.zoom \in leftLimit..rightLimit =>
            /\ camera.zoomDirection = 0 /\ camera.zoomSpeed = 1
            /\ zoomPacket[5] = 1

\* the pan sample on the left limit itself
C9_Witness ==
  /\ pc = "L208"
  /\ joystick.x = leftLimit
  /\ camera.panDirection = PAN_STOP /\ camera.panSpeed = 1

----------------------------------------------------------------------------
\* C10: below the deadzone the speed never decreases with the distance from
\* leftLimit: the speed of the sample just mapped is at least the speed of
\* every sample between it and leftLimit, and lies in [1, axis maximum]
\* (pan 24, tilt 23, zoom 7).
C10_MonotoneBelow ==
  pc = "L208" =>
    /\ joystick.x <= leftLimit =>
         /\ \A s2 \in joystick.x..leftLimit :
              camera.panSpeed >= PanCommand(s2).speed
         /\ camera.panSpeed \in 1..24
    /\ joystick.y <= leftLimit =>
         /\ \A s2 \in joystick.y..leftLimit :
              camera.tiltSpeed >= TiltCommand(s2).speed
         /\ camera.tiltSpeed \in 1..23
    /\ joystick.zoom <= leftLimit =>
         /\ \A s2 \in joystick.zoom..leftLimit :
              camera.zoomSpeed >= ZoomCommand(s2).speed
         /\ camera.zoomSpeed \in 1..7

\* the tilt sample at the far end: the maximum of that side
C10_Witness ==
  /\ pc = "L208"
  /\ joystick.y = 0
  /\ camera.tiltSpeed = 23

----------------------------------------------------------------------------
\* C11: for every sample of 0..1023 the emitted drive frame has pan and tilt
\* speeds in 1..24 (tilt at most 23 below leftLimit) and the emitted zoom frame
\* a speed in 1..7; the speed is 1 whenever the direction is stop, and is the
\* maximum at the ends of the range (pan 24 at 0 and 1023, tilt 23 at 0 and 24
\* at 1023, zoom 7 at 0 and 1023).
C11_SpeedOnWire ==
  (pc = "L208" /\ DriveThenZoom(written)) =>
    LET drv == written[1]
        zm == written[2]
    IN
    /\ drv[5] \in 1..24
    /\ drv[6] \in 1..24
    /\ joystick.y < leftLimit => drv[6] <= 23
    /\ (zm[5] % 16) \in 1..7
    /\ drv[7] = PAN_STOP => drv[5] = 1
    /\ drv[8] = TILT_STOP => drv[6] = 1
    /\ (zm[5] \div 16) = ZOOM_STOP => (zm[5] % 16) = 1
    /\ joystick.x \in {minVal, maxVal} => drv[5] = 24
    /\ joystick.y = minVal => drv[6] = 23
    /\ joystick.y = maxVal => drv[6] = 24
    /\ joystick.zoom \in {minVal, maxVal} => (zm[5] % 16) = 7

\* the tilt sample at the top of the range, sent with speed 24
C11_Witness ==
  /\ pc = "L208"
  /\ DriveThenZoom(written)
  /\ joystick.y = maxVal
  /\ written[1][6] = 24

----------------------------------------------------------------------------
\* C12: with pan 1023, tilt 512, zoom 0, the arbiter Idle and no pending edge,
\* the tick writes the drive frame 81 01 06 01 18 01 <panDir> 03 FF with a
\* non-stop pan code, then the zoom frame 81 01 04 07 37 FF, no memory frame,
\* and drives the indicator low.
C12_ReferenceTick ==
  (pc = "L208" /\ joystick = [x |-> 1023, y |-> 512, zoom |-> 0]
     /\ ticks[Len(ticks)].cm = 0) =>
    /\ Len(written) = 2
    /\ \E d \in {PAN_LEFT, PAN_RIGHT} :
         written[1] = << 129, 1, 6, 1, 24, 1, d, 3, 255 >>
    /\ written[2] = << 129, 1, 4, 7, 55, 255 >>
    /\ zoomLed = LOW

\* the reference tick has run from the initial state
C12_Witness ==
  /\ pc = "L208"
  /\ joystick = [x |-> 1023, y |-> 512, zoom |-> 0]
  /\ buttonToCheck = -1 /\ commande_memory = 0
  /\ written = << << 129, 1, 6, 1, 24, 1, 1, 3, 255 >>,
                  << 129, 1, 4, 7, 55, 255 >> >>

----------------------------------------------------------------------------
\* C15: for every zoom sample of 0..1023 the payload byte of the zoom frame is
\* (zoomDirection << 4) | zoomSpeed and decodes to the same pair: high nibble
\* the direction (0 stop, 2 tele, 3 wide), low nibble the speed.
C15_ZoomRoundTrip ==
  pc = "L208" =>
    /\ zoomPacket[5] \div 16 = camera.zoomDirection
    /\ zoomPacket[5] % 16 = camera.zoomSpeed
    /\ zoomPacket[5] = camera.zoomDirection * 16 + camera.zoomSpeed
    /\ camera.zoomDirection =
         (IF joystick.zoom < leftLimit THEN 3
          ELSE IF joystick.zoom > rightLimit THEN 2 ELSE 0)
    /\ camera.zoomSpeed <= 7
    /\ DriveThenZoom(written) => written[2][5] = zoomPacket[5]

\* a tele zoom at full speed: 0x27
C15_Witness ==
  /\ pc = "L208"
  /\ joystick.zoom = maxVal
  /\ zoomPacket[5] = 39

----------------------------------------------------------------------------
\* C13: at the end of every tick, whatever the arbiter state and the frames
\* written, the indicator is high if and only if the zoom sample of that tick
\* lies in [leftLimit, rightLimit]; pan and tilt play no part.
C13_ZoomIndicator ==
  /\ zoomLed \in {LOW, HIGH}
  /\ pc = "L208" =>
       (zoomLed = HIGH <=> joystick.zoom \in leftLimit..rightLimit)
  /\ \A i \in 1..Len(ticks) :
       ticks[i].led = HIGH <=> ticks[i].zoom \in leftLimit..rightLimit

\* a recall tick (memory frame) with pan off-centre and zoom centred: lamp high
C13_Witness ==
  /\ pc = "L208"
  /\ ticks[Len(ticks)].cm = 2
  /\ OneMemory(written)
  /\ joystick.x = 0 /\ joystick.zoom = 512
  /\ zoomLed = HIGH

----------------------------------------------------------------------------
\* C14: the three templates keep their length, header and trailer in every
\* state (only drive bytes 4..7, zoom byte 4 and memory bytes 4..5 change); an
\* emitted drive frame has pan and tilt codes in {1, 2, 3}; an emitted memory
\* frame has subcommand 1 or 2 and slot 0.
C14_Templates ==
  /\ IsDriveFrame(drivePacket)
  /\ IsZoomFrame(zoomPacket)
  /\ IsMemoryFrame(memoryPacket)
  /\ \A i \in 1..Len(ticks) :
       LET f == ticks[i].frames IN
       /\ DriveThenZoom(f) => (f[1][7] \in {1, 2, 3} /\ f[1][8] \in {1, 2, 3})
       /\ OneMemory(f) => (f[1][5] \in {1, 2} /\ f[1][6] = 0)
       /\ OneMemory(f) \/ DriveThenZoom(f)

\* a store frame, then a drive frame at full pan speed
C14_Witness ==
  /\ Len(ticks) = 2
  /\ ticks[1].frames = << StoreFrame >>
  /\ DriveThenZoom(ticks[2].frames)
  /\ memoryPacket = StoreFrame
  /\ drivePacket[5] = 24

----------------------------------------------------------------------------
----------------------------------------------------------------------------
\* C18: a step of isr_Btn1 leaves isPress, timepressed, commande_memory,
\* start_memory_commande_memory, the three packets, the lamp and the output
\* stream unchanged and does not move loop(); a rejected edge also leaves
\* lastpressed and buttonToCheck unchanged; isPress and timepressed change
\* only in the classification step of loop() (line 119 onwards).
C18_IsrFrame ==
  [][ /\ nEdges' = nEdges + 1 =>
           /\ allbtn'.isPress = allbtn.isPress
           /\ allbtn'.timepressed = allbtn.timepressed
           /\ UNCHANGED << commande_memory, start_memory_commande_memory,
                           drivePacket, memoryPacket, zoomPacket, zoomLed,
                           joystick, camera, written, pc >>
           /\ accepted' = accepted => UNCHANGED << allbtn, buttonToCheck >>
      /\ (allbtn'.isPress # allbtn.isPress
            \/ allbtn'.timepressed # allbtn.timepressed) =>
           /\ pc = "L119" /\ pc' = "L138"
           /\ nEdges' = nEdges
    ]_vars

\* during a recall hold an edge was accepted while the button record says
\* pressed: the flag is set, the press time is older than the edge
C18_Witness ==
  /\ commande_memory = 2
  /\ buttonToCheck = 0
  /\ pc \in {"L208", "L118"}
  /\ allbtn.isPress
  /\ allbtn.lastpressed > allbtn.timepressed
  /\ allbtn.lastpressed = lastEdge

----------------------------------------------------------------------------
\* C19: a memory frame written with commande_memory = 2 carries subcommand 2
\* and one written with commande_memory = 1 carries subcommand 1; the tick of
\* a press classified long writes a store frame, never a recall frame, and a
\* store frame is written only with commande_memory = 1.
C19_SubcommandMatches ==
  /\ commande_memory = 2 => memoryPacket = RecallFrame
  /\ commande_memory = 1 => memoryPacket = StoreFrame
  /\ \A i \in 1..Len(ticks) :
       /\ ticks[i].cm = 2 => ticks[i].frames = << RecallFrame >>
       /\ ticks[i].cm = 1 => ticks[i].frames = << StoreFrame >>
       /\ ticks[i].ev = "Store" => ticks[i].frames = << StoreFrame >>
       /\ ticks[i].ev = "Recall" => ticks[i].frames = << RecallFrame >>
       /\ ticks[i].frames = << StoreFrame >> => ticks[i].cm = 1
       /\ ticks[i].frames = << RecallFrame >> => ticks[i].cm = 2

\* a recall tick followed by the tick of a long press
C19_Witness ==
  /\ Len(ticks) = 2
  /\ ticks[1].cm = 2 /\ ticks[1].frames = << RecallFrame >>
  /\ ticks[2].cm = 1 /\ ticks[2].ev = "Store"
  /\ ticks[2].frames = << StoreFrame >>

----------------------------------------------------------------------------
\* C20: a press classified short while commande_memory = 2 sets
\* start_memory_commande_memory to the time of that classification and leaves
\* commande_memory at 2; the start changes at no other step; a tick entered
\* with commande_memory = 2 writes the recall frame alone and ends the hold
\* exactly when more than 5000 ms have passed since that (latest) start, and
\* drive and zoom frames come back only after such a tick.
C20_Restart ==
  /\ [](\A i \in 1..Len(ticks) :
          /\ ticks[i].cm = 2 =>
               /\ ticks[i].frames = << RecallFrame >>
               /\ ticks[i].cmEnd = 0 <=> ticks[i].age > HoldMs
               /\ ticks[i].cmEnd \in {0, 2}
          /\ (i = 2 /\ ticks[1].cm = 2 /\ ticks[2].cm = 0) =>
               /\ ticks[1].age > HoldMs
               /\ DriveThenZoom(ticks[2].frames))
  /\ [][ /\ (pc = "L119" /\ commande_memory = 2 /\ event' = "Recall") =>
              /\ start_memory_commande_memory' = now
              /\ commande_memory' = 2
         /\ start_memory_commande_memory' # start_memory_commande_memory =>
              /\ pc = "L119" /\ event' = "Recall"
              /\ start_memory_commande_memory' = now
       ]_vars

\* the second short press (edges 3 and 4) was classified during the hold of
\* the first; more than 5000 ms after its press edge, hence after the first
\* classification, the tick still writes the recall frame and stays in recall
C20_Witness ==
  /\ pc = "L208"
  /\ lastClass.ev = "Recall" /\ lastClass.startNo = 3 /\ lastClass.endNo = 4
  /\ now - pressEdge.at > HoldMs
  /\ ticks[Len(ticks)].cm = 2 /\ ticks[Len(ticks)].cmEnd = 2
  /\ written = << RecallFrame >>
  /\ commande_memory = 2

----------------------------------------------------------------------------
\* C17: whenever commande_memory = 2, loop() running on, a later tick has
\* commande_memory back at 0 and writes the drive and zoom frames; and
\* commande_memory = 1 holds only between the classification of a long press
\* and the emission of the same tick, which resets it.
C17_RecallBounded ==
  /\ (commande_memory = 2) ~>
       (commande_memory = 0 /\ pc = "L208" /\ DriveThenZoom(written))
  /\ [](commande_memory = 1 => pc \in {"L138", "L140"})
  /\ [](\A i \in 1..Len(ticks) : ticks[i].cm = 1 => ticks[i].cmEnd = 0)

\* the tick after the one that ended a recall hold: drive and zoom are back
C17_Witness ==
  /\ pc = "L208"
  /\ Len(ticks) = 2
  /\ ticks[1].cm = 2 /\ ticks[1].cmEnd = 0
  /\ ticks[2].cm = 0
  /\ commande_memory = 0
  /\ DriveThenZoom(written)
  /\ lastClass.ev = "Recall"

====
